---- MODULE Spec2Model ----
(***************************************************************************)
(* A model of a.py, the Streamlit script "BBC News Article Analysis":      *)
(* the cached model handles, the three pipeline functions                  *)
(* (extract_article_text, generate_summary, analyze_sentiment), the        *)
(* orchestrator analyze_article, and the script body with its two modes.   *)
(*                                                                         *)
(* Python values are tagged records: None, a short string (field v), a     *)
(* number in hundredths (field h), an article text (fields lead, n, w, s,  *)
(* trail) and a prefix of an article text (fields of, upto).               *)
(*                                                                         *)
(* An article text is taken from a family of regular texts: `lead`         *)
(* whitespace characters, then n words of w non-whitespace characters      *)
(* each, separated by s whitespace characters, then `trail` whitespace     *)
(* characters.  CharAt gives the character at a position, so that          *)
(* lengths, slices and token counts are those of the actual string.        *)
(***************************************************************************)
EXTENDS Integers, Sequences, FiniteSets, TLC

VARIABLES
    pc,                \* position of the script run ("idle" between runs)
    runs,              \* number of script runs started in this process
    analysis_mode,     \* the sidebar radio's value (session widget state)
    custom_url,        \* the text input's value
    button,            \* TRUE in the run a click of "Generate Analysis" triggered
    cache,             \* st.cache_resource: loader name -> handle (0: not cached)
    built,             \* loader name -> number of times pipeline(...) was built
    summarizer,        \* module global of the current run (0: not yet assigned)
    sentiment_analyzer,\* module global of the current run (0: not yet assigned)
    idx,               \* batch loop: index of the next preloaded article
    results,           \* batch loop: the rows collected so far
    out,               \* what the current run has rendered, in order
    last,              \* trace of the last analyze_article call of the run
    used,              \* loader name -> whether a call was made on its handle
    fetched,           \* what the extractor came to, per article of the batch run
    arg,               \* function-level specifications: the input text
    call               \* function-level specifications: the traces of the calls made

vars == <<pc, runs, analysis_mode, custom_url, button, cache, built, summarizer,
          sentiment_analyzer, idx, results, out, last, used, fetched, arg, call>>

appVars == <<pc, runs, analysis_mode, custom_url, button, cache, built, summarizer,
             sentiment_analyzer, idx, results, out, last, used, fetched>>

----------------------------------------------------------------------------
(* Program constants *)

max_input == 1024

SentimentMaxChars == 512

MinArticleLen == 100

SummaryFailed == "Summary generation failed."

----------------------------------------------------------------------------
(* Bounds of the model *)

\* token counts are taken within MaxDelta of 0, MinArticleLen/2,
\* SentimentMaxChars/2 and max_input
MaxDelta == 1

\* words have 1..MaxWordLen characters
MaxWordLen == 2

\* leading, trailing and extra separating whitespace: 0..MaxPad characters
MaxPad == 1

\* confidences within MaxFine units (of 1/ConfScale) of 0 and of 1
MaxFine == 12

\* script runs of the process
MaxRuns == 3

----------------------------------------------------------------------------
(* Python values *)

None == [py |-> "None"]

Str(s) == [py |-> "str", v |-> s]

\* a number, in hundredths: 87.0 is Num(8700)
Num(h) == [py |-> "num", h |-> h]

Text(lead, n, w, s, trail) ==
    [py |-> "str", lead |-> lead, n |-> n, w |-> w, s |-> s, trail |-> trail]

\* the first `upto` characters of the text `of`
Prefix(t, m) == [py |-> "str", of |-> t, upto |-> m]

Min(a, b) == IF a < b THEN a ELSE b

Abs(a) == IF a < 0 THEN -a ELSE a

BodyLen(t) == IF t.n = 0 THEN 0 ELSE t.n * t.w + (t.n - 1) * t.s

\* len(text)
TextLen(t) == t.lead + BodyLen(t) + t.trail

\* text[i - 1], for i in 1..len(text)
CharAt(t, i) ==
    IF i <= t.lead \/ i > t.lead + BodyLen(t) THEN " "
    ELSE IF (i - t.lead - 1) % (t.w + t.s) < t.w THEN "x" ELSE " "

\* the whitespace-delimited tokens of a text, counted on its characters
NumTokens(t) ==
    Cardinality({i \in 1..TextLen(t) :
                    CharAt(t, i) # " " /\ (i = 1 \/ CharAt(t, i - 1) = " ")})

NonSpace(t) == Cardinality({i \in 1..TextLen(t) : CharAt(t, i) # " "})

\* text.split(): the list of the text's words (n words of w characters)
Split(t) == [n |-> t.n, w |-> IF t.n = 0 THEN 1 ELSE t.w]

\* words[:k]
Take(words, k) == [n |-> Min(words.n, k), w |-> words.w]

\* " ".join(words)
Join(words) == Text(0, words.n, words.w, 1, 0)

\* text[:k]
Slice(t, k) == Prefix(t, Min(k, TextLen(t)))

\* bool(v), for None and strings
Truthy(v) == v.py # "None" /\ TextLen(v) > 0

----------------------------------------------------------------------------
(* The inputs: article texts and the outcomes of the external collaborators *)

Window(c) == {m \in (c - MaxDelta)..(c + MaxDelta) : m >= 0}

Shapes(counts, lens) ==
    {Text(l, n, w, 1 + e, t) :
        l \in 0..MaxPad, n \in counts, w \in lens, e \in 0..MaxPad, t \in 0..MaxPad}

\* texts around the length thresholds, texts around the token threshold, and
\* texts of whitespace only
Texts ==
    Shapes((Window(0) \cup Window(MinArticleLen \div 2)
              \cup Window(SentimentMaxChars \div 2)) \ {0}, 1..MaxWordLen)
    \cup Shapes(Window(max_input), {1})
    \cup {Text(l, 0, 1, 1, 0) :
            l \in {0, MinArticleLen - 1, MinArticleLen, SentimentMaxChars + 1}}

\* what Article(url).download(), .parse() and .text come to
ExtractOutcomes(texts) ==
    {[kind |-> "raise"], [kind |-> "text", text |-> None]}
    \cup {[kind |-> "text", text |-> t] : t \in texts}

Summaries == {"", "s1"}

\* what summarizer(text, ...) comes to: a list with one summary, an error, or
\* a result without summary_list[0]['summary_text']
SummarizerOutcomes ==
    {[kind |-> "ok", summary |-> s] : s \in Summaries}
    \cup {[kind |-> "raise"], [kind |-> "malformed"]}

\* confidences are counted in units of 1/ConfScale
ConfScale == 100 * 1000

POSITIVE == "POSITIVE"

NEGATIVE == "NEGATIVE"

NA == "N/A"

\* str.upper() on the labels of the model
UpperTable ==
    [l \in {"POSITIVE", "NEGATIVE", "positive", "Positive", "negative", "NEUTRAL", "neutral"} |->
        CASE l \in {"positive", "Positive"} -> "POSITIVE"
          [] l = "negative" -> "NEGATIVE"
          [] l = "neutral" -> "NEUTRAL"
          [] OTHER -> l]

Upper(l) == UpperTable[l]

Confs ==
    (0..MaxFine) \cup {ConfScale - k : k \in 0..MaxFine}
    \cup {(42 * ConfScale) \div 100, (87 * ConfScale) \div 100}

\* what sentiment_analyzer(text) comes to.  `tie` is where the floating-point
\* product falls when its decimal value is exactly halfway between two
\* hundredths
Halfway(c) == ((c * 100) \div (ConfScale \div 1000)) % 10 = 5

SentimentOk(labels, confs) ==
    {[kind |-> "ok", label |-> l, score |-> c, tie |-> t] :
        l \in labels, c \in confs, t \in {"down", "up"}}
    \ {[kind |-> "ok", label |-> l, score |-> c, tie |-> "up"] :
        l \in labels, c \in {k \in confs : ~Halfway(k)}}

SentimentFailures ==
    {[kind |-> k] : k \in {"raise", "empty_list", "missing_key", "non_numeric_score"}}

\* the outcomes drawn in the batch loop, whose rows accumulate
BatchSummarizerOutcomes == SummarizerOutcomes \ {[kind |-> "malformed"]}

BatchSentimentOutcomes ==
    SentimentOk({POSITIVE}, {(87 * ConfScale) \div 100})
    \cup SentimentOk({NEGATIVE}, {(42 * ConfScale) \div 100})
    \cup {[kind |-> "raise"]}

\* any label, any confidence of Confs
AllSentimentOutcomes == SentimentOk(DOMAIN UpperTable, Confs) \cup SentimentFailures

----------------------------------------------------------------------------
(* The pipeline functions.  Each returns the trace of one call: what it     *)
(* returned (ret), what it handed to its collaborator (submitted), what the *)
(* collaborator came to (got), the model handle it used (handle), the       *)
(* st.error messages it rendered (shown), whether an exception escaped.     *)

\* lines 20-27
extract_article_text(url, ext) ==
    IF ext.kind = "raise"
    THEN [ret |-> None, shown |-> <<"Error fetching article">>, escaped |-> FALSE]
    ELSE [ret |-> ext.text, shown |-> <<>>, escaped |-> FALSE]

\* the slice words[:max_input] forgotten
truncate_words_unsliced(text) ==
    LET words == Split(text)
    IN  IF words.n > max_input THEN Join(words) ELSE text

\* lines 32-35: the text handed to the summarizer
truncate_words(text) ==
    LET words == Split(text)
    IN  IF words.n > max_input THEN Join(Take(words, max_input)) ELSE text

\* the failure handed on as an absent summary
summary_failed_absent == None

\* line 41
summary_failed == Str(SummaryFailed)

\* lines 30-41
generate_summary(text, sm) ==
    LET t == truncate_words(text)
    IN  IF sm.kind = "ok"
        THEN [fn |-> "generate_summary", handle |-> summarizer, submitted |-> t, got |-> sm, ret |-> Str(sm.summary),
              shown |-> <<>>, escaped |-> FALSE]
        ELSE [fn |-> "generate_summary", handle |-> summarizer, submitted |-> t, got |-> sm, ret |-> summary_failed,
              shown |-> <<"Error in summarization">>, escaped |-> FALSE]

\* line 47: the text handed to the sentiment model
truncate_chars(text) == Slice(text, SentimentMaxChars)

\* the confidence scaled by 1000 instead of 100
importance_times_ten(label, score) ==
    IF Upper(label) = "POSITIVE"
    THEN (score * 1000) \div (ConfScale \div 1000)
    ELSE -((score * 1000) \div (ConfScale \div 1000))

\* the two branches exchanged
importance_flipped(label, score) ==
    IF Upper(label) = "POSITIVE"
    THEN -((score * 100) \div (ConfScale \div 1000))
    ELSE (score * 100) \div (ConfScale \div 1000)

\* the label compared without .upper()
importance_case_sensitive(label, score) ==
    IF label = "POSITIVE"
    THEN (score * 100) \div (ConfScale \div 1000)
    ELSE -((score * 100) \div (ConfScale \div 1000))

\* line 51, in units of 1/1000 (the confidence is in units of 1/ConfScale)
importance(label, score) ==
    IF Upper(label) = "POSITIVE"
    THEN (score * 100) \div (ConfScale \div 1000)
    ELSE -((score * 100) \div (ConfScale \div 1000))

\* round(x, 2): x in thousandths, the result in hundredths
Round2(x, tie) ==
    LET q == Abs(x) \div 10
        r == Abs(x) % 10
        m == IF r < 5 THEN q ELSE IF r > 5 THEN q + 1
             ELSE IF tie = "up" THEN q + 1 ELSE q
    IN  IF x < 0 THEN -m ELSE m

\* the placeholder with another score
sentiment_failed_minus_one == <<Str(NA), Num(-100)>>

\* line 55
sentiment_failed == <<Str(NA), Num(0)>>

\* lines 44-55
analyze_sentiment(text, sn) ==
    LET t == truncate_chars(text)
    IN  IF sn.kind = "ok"
        THEN [fn |-> "analyze_sentiment", handle |-> sentiment_analyzer, submitted |-> t, got |-> sn,
              ret |-> <<Str(sn.label), Num(Round2(importance(sn.label, sn.score), sn.tie))>>,
              shown |-> <<>>, escaped |-> FALSE]
        ELSE [fn |-> "analyze_sentiment", handle |-> sentiment_analyzer, submitted |-> t, got |-> sn, ret |-> sentiment_failed,
              shown |-> <<"Error in sentiment analysis">>, escaped |-> FALSE]

----------------------------------------------------------------------------
(* Function-level specifications: one text, one call *)

NoCall == [fn |-> "none"]

Loaders == {"load_summarizer", "load_sentiment"}

\* the module as imported: lines 15-16 have run, nothing else has
Imported ==
    /\ pc = "imported"
    /\ runs = 1
    /\ analysis_mode = "Preloaded Articles"
    /\ custom_url = ""
    /\ button = FALSE
    /\ cache = [f \in Loaders |-> 1]
    /\ built = [f \in Loaders |-> 1]
    /\ summarizer = 1
    /\ sentiment_analyzer = 1
    /\ idx = 0
    /\ results = <<>>
    /\ out = <<>>
    /\ last = NoCall
    /\ used = [f \in Loaders |-> FALSE]
    /\ fetched = <<>>

InitText ==
    /\ Imported
    /\ arg \in Texts
    /\ call = <<>>

Called(fn) == \E k \in 1..Len(call) : call[k].fn = fn

CallGenerateSummary ==
    /\ ~Called("generate_summary")
    /\ \E sm \in SummarizerOutcomes : call' = Append(call, generate_summary(arg, sm))
    /\ UNCHANGED <<appVars, arg>>

CallAnalyzeSentiment(outcomes) ==
    /\ ~Called("analyze_sentiment")
    /\ \E sn \in outcomes : call' = Append(call, analyze_sentiment(arg, sn))
    /\ UNCHANGED <<appVars, arg>>

TruncateSentiment ==
    CallAnalyzeSentiment({[kind |-> "raise"]} \cup SentimentOk({POSITIVE}, {ConfScale}))

NextText == CallGenerateSummary \/ TruncateSentiment

SpecText == InitText /\ [][NextText]_vars

ScoreTexts == {Text(0, n, 1, 1, 0) : n \in {MinArticleLen \div 2 + 1, SentimentMaxChars}}

InitScore ==
    /\ Imported
    /\ arg \in ScoreTexts
    /\ call = <<>>

ScoreSentiment == CallAnalyzeSentiment(AllSentimentOutcomes)

NextScore == ScoreSentiment

SpecScore == InitScore /\ [][NextScore]_vars

----------------------------------------------------------------------------
(* The orchestrator *)

\* the length check left out
gate_without_length(article_text) == ~Truthy(article_text)

\* line 60
gate(article_text) == ~Truthy(article_text) \/ TextLen(article_text) < MinArticleLen

\* lines 58-64: the trace of one call
analyze_article(url, ext, sm, sn) ==
    LET e == extract_article_text(url, ext)
    IN  IF gate(e.ret)
        THEN [fn |-> "analyze_article", url |-> url, got |-> ext, article_text |-> e.ret,
              calls |-> <<>>, ret |-> <<None, None, None>>,
              shown |-> e.shown, escaped |-> e.escaped]
        ELSE LET g == generate_summary(e.ret, sm)
                 a == analyze_sentiment(e.ret, sn)
             IN  [fn |-> "analyze_article", url |-> url, got |-> ext, article_text |-> e.ret,
                  calls |-> <<[arg |-> e.ret, trace |-> g], [arg |-> e.ret, trace |-> a]>>,
                  ret |-> <<g.ret, a.ret[1], a.ret[2]>>,
                  shown |-> e.shown \o g.shown \o a.shown,
                  escaped |-> e.escaped \/ g.escaped \/ a.escaped]

\* the calls a trace of analyze_article made on each handle
Uses(trace) ==
    [f \in Loaders |-> trace.calls # <<>>]

----------------------------------------------------------------------------
(* The script *)

\* lines 67-71
preloaded_articles ==
    << [title |-> "BBC Article 1", url |-> "https://www.bbc.com/news/world-us-canada-66801985"],
       [title |-> "BBC Article 2", url |-> "https://www.bbc.com/news/technology-66804779"],
       [title |-> "BBC Article 3", url |-> "https://www.bbc.com/news/science-environment-66799975"] >>

Modes == {"Preloaded Articles", "Custom URL"}

CustomUrls == {"https://www.bbc.com/news/custom"}

\* the texts the extractor returns in the runs of the script: empty, 99
\* characters, 100 characters, and more than max_input tokens
AppTexts ==
    {Text(0, 0, 1, 1, 0),
     Text(0, MinArticleLen \div 2, 1, 1, 0),
     Text(1, MinArticleLen \div 2, 1, 1, 0),
     Text(0, max_input + 1, 1, 2, 0)}

El(kind, label, value) == [el |-> kind, label |-> label, value |-> value]

Errors(shown) == [k \in 1..Len(shown) |-> El("error", shown[k], None)]

\* lines 96-102
Row(title, url, summary, sentiment_label, importance_score) ==
    [k \in {"Title", "URL", "Summary", "Sentiment", "Importance Score"} |->
        CASE k = "Title" -> Str(title)
          [] k = "URL" -> Str(url)
          [] k = "Summary" -> summary
          [] k = "Sentiment" -> sentiment_label
          [] OTHER -> importance_score]

\* the keys of a row, in the order lines 96-102 insert them
RowKeys == <<"Title", "URL", "Summary", "Sentiment", "Importance Score">>

\* line 107: the frame's columns are the keys of the rows
DataFrame(rows) == [py |-> "DataFrame", columns |-> RowKeys, rows |-> rows]

\* "if not summary" instead of "if summary is None"
skip_falsy(summary) == summary = None \/ summary = Str("")

\* lines 90 and 115
skip(summary) == summary = None

\* the table rendered whatever the rows
should_render_always(rows) == TRUE

\* line 105
should_render(rows) == rows # <<>>

\* the loader without its cache
cache_resource_uncached(f, c, b) ==
    [handle |-> b[f] + 1, cache |-> c, built |-> [b EXCEPT ![f] = @ + 1]]

\* lines 7-9 and 11-13: st.cache_resource around pipeline(...)
cache_resource(f, c, b) ==
    IF c[f] = 0
    THEN [handle |-> b[f] + 1, cache |-> [c EXCEPT ![f] = b[f] + 1],
          built |-> [b EXCEPT ![f] = @ + 1]]
    ELSE [handle |-> c[f], cache |-> c, built |-> b]

Init ==
    /\ pc = "idle"
    /\ runs = 0
    /\ analysis_mode = "Preloaded Articles"
    /\ custom_url = ""
    /\ button = FALSE
    /\ cache = [f \in Loaders |-> 0]
    /\ built = [f \in Loaders |-> 0]
    /\ summarizer = 0
    /\ sentiment_analyzer = 0
    /\ idx = 0
    /\ results = <<>>
    /\ out = <<>>
    /\ last = NoCall
    /\ used = [f \in Loaders |-> FALSE]
    /\ fetched = <<>>
    /\ arg = None
    /\ call = <<>>

\* Streamlit runs the script from the top: on the first load, and after every
\* interaction with a widget the previous run rendered
StartRun ==
    /\ pc \in {"idle", "done"}
    /\ runs < MaxRuns
    /\ \/ /\ runs = 0
          /\ UNCHANGED <<analysis_mode, custom_url, button>>
       \/ /\ runs > 0
          /\ \E m \in Modes :
                /\ analysis_mode' = m
                /\ custom_url' = IF m = analysis_mode THEN custom_url ELSE ""
                /\ button' = FALSE
       \/ /\ runs > 0
          /\ analysis_mode = "Custom URL"
          /\ \E u \in CustomUrls \cup {""}, b \in BOOLEAN :
                /\ custom_url' = u
                /\ button' = b
          /\ UNCHANGED analysis_mode
    /\ runs' = runs + 1
    /\ pc' = "l15"
    /\ summarizer' = 0
    /\ sentiment_analyzer' = 0
    /\ idx' = 0
    /\ results' = <<>>
    /\ out' = <<>>
    /\ last' = NoCall
    /\ fetched' = <<>>
    /\ UNCHANGED <<cache, built, used, arg, call>>

\* line 15
LoadSummarizer ==
    /\ pc = "l15"
    /\ LET r == cache_resource("load_summarizer", cache, built)
       IN  /\ summarizer' = r.handle
           /\ cache' = r.cache
           /\ built' = r.built
    /\ pc' = "l16"
    /\ UNCHANGED <<runs, analysis_mode, custom_url, button, sentiment_analyzer, idx,
                   results, out, last, used, fetched, arg, call>>

\* line 16
LoadSentiment ==
    /\ pc = "l16"
    /\ LET r == cache_resource("load_sentiment", cache, built)
       IN  /\ sentiment_analyzer' = r.handle
           /\ cache' = r.cache
           /\ built' = r.built
    /\ pc' = "l74"
    /\ UNCHANGED <<runs, analysis_mode, custom_url, button, summarizer, idx,
                   results, out, last, used, fetched, arg, call>>

\* lines 74-85 and 110-113
Layout ==
    /\ pc = "l74"
    /\ LET head == <<El("title", "BBC News Article Analysis", None)>>
       IN  IF analysis_mode = "Preloaded Articles"
           THEN /\ out' = head \o <<El("header", "Preloaded BBC Articles Analysis", None)>>
                /\ results' = <<>>
                /\ idx' = 1
                /\ pc' = "l86"
           ELSE /\ out' = head \o <<El("header", "Custom BBC Article Analysis", None)>>
                /\ pc' = IF button /\ custom_url # "" THEN "l114" ELSE "done"
                /\ UNCHANGED <<results, idx>>
    /\ UNCHANGED <<runs, analysis_mode, custom_url, button, cache, built, summarizer,
                   sentiment_analyzer, last, used, fetched, arg, call>>

\* lines 86-103: one iteration of the loop over preloaded_articles
BatchIteration ==
    /\ pc = "l86"
    /\ idx <= Len(preloaded_articles)
    /\ \E ext \in ExtractOutcomes(AppTexts), sm \in BatchSummarizerOutcomes,
          sn \in BatchSentimentOutcomes :
          LET title == preloaded_articles[idx].title
              url == preloaded_articles[idx].url
              a == analyze_article(url, ext, sm, sn)
              summary == a.ret[1]
              intro == <<El("subheader", title, None), El("write", "[Read the article]", Str(url))>>
          IN  /\ last' = a
              /\ used' = [f \in Loaders |-> used[f] \/ Uses(a)[f]]
              /\ fetched' = Append(fetched, ext)
              /\ IF skip(summary)
                 THEN /\ out' = out \o intro \o Errors(a.shown)
                                 \o <<El("error", "Failed to extract article text or article is too short for analysis.", None)>>
                      /\ UNCHANGED results
                 ELSE /\ out' = out \o intro \o Errors(a.shown)
                                 \o <<El("write", "**Summary:**", summary),
                                      El("write", "**Sentiment:**", a.ret[2]),
                                      El("write", "**Importance Score:**", a.ret[3]),
                                      El("markdown", "---", None)>>
                      /\ results' = Append(results, Row(title, url, summary, a.ret[2], a.ret[3]))
    /\ idx' = idx + 1
    /\ UNCHANGED <<pc, runs, analysis_mode, custom_url, button, cache, built, summarizer,
                   sentiment_analyzer, arg, call>>

\* lines 105-108, after the loop
RenderTable ==
    /\ pc = "l86"
    /\ idx > Len(preloaded_articles)
    /\ out' = IF should_render(results)
              THEN out \o <<El("subheader", "Tabulated Results", None),
                            El("table", "", DataFrame(results))>>
              ELSE out
    /\ pc' = "done"
    /\ UNCHANGED <<runs, analysis_mode, custom_url, button, cache, built, summarizer,
                   sentiment_analyzer, idx, results, last, used, fetched, arg, call>>

\* lines 114-121
CustomAnalysis ==
    /\ pc = "l114"
    /\ \E ext \in ExtractOutcomes(AppTexts), sm \in SummarizerOutcomes,
          sn \in AllSentimentOutcomes :
          LET a == analyze_article(custom_url, ext, sm, sn)
              summary == a.ret[1]
          IN  /\ last' = a
              /\ used' = [f \in Loaders |-> used[f] \/ Uses(a)[f]]
              /\ IF skip(summary)
                 THEN out' = out \o Errors(a.shown)
                               \o <<El("error", "Failed to extract article text or the article text is too short for analysis.", None)>>
                 ELSE out' = out \o Errors(a.shown)
                               \o <<El("write", "**Summary:**", summary),
                                    El("write", "**Sentiment:**", a.ret[2]),
                                    El("write", "**Importance Score:**", a.ret[3]),
                                    El("success", "Analysis complete!", None)>>
    /\ pc' = "done"
    /\ UNCHANGED <<runs, analysis_mode, custom_url, button, cache, built, summarizer,
                   sentiment_analyzer, idx, results, fetched, arg, call>>

Next ==
    \/ StartRun
    \/ LoadSummarizer
    \/ LoadSentiment
    \/ Layout
    \/ BatchIteration
    \/ RenderTable
    \/ CustomAnalysis

Spec == Init /\ [][Next]_vars

----------------------------------------------------------------------------
(* The claims *)

AllAbsent == <<None, None, None>>

NoText(ext) == ext.kind = "raise" \/ ext.text = None \/ TextLen(ext.text) = 0

ShortText(ext) ==
    ext.kind = "text" /\ ext.text # None /\ TextLen(ext.text) < MinArticleLen

ValidText(ext) ==
    ext.kind = "text" /\ ext.text # None /\ TextLen(ext.text) >= MinArticleLen

Analyzed == last.fn = "analyze_article"

InBatch == analysis_mode = "Preloaded Articles" /\ pc \in {"l86", "done"}

\* C1: whenever the extractor raised, returned no text, an empty text or a
\* text of fewer than 100 characters, analyze_article returns
\* (None, None, None) and no exception escapes it.
C1_NoTextGivesAllAbsent ==
    Analyzed /\ (NoText(last.got) \/ ShortText(last.got))
        => last.ret = AllAbsent /\ ~last.escaped

\* a text of 99 characters was extracted and the call returned all-absent
C1_Witness ==
    /\ Analyzed
    /\ last.got.kind = "text"
    /\ last.got.text # None
    /\ TextLen(last.got.text) = MinArticleLen - 1
    /\ last.ret = AllAbsent

InContract(sn) ==
    sn.kind = "ok" => sn.label \in {POSITIVE, NEGATIVE} /\ sn.score \in 0..ConfScale

\* C2: for every extracted text of at least 100 characters and every outcome
\* of the two models (the sentiment model returning POSITIVE or NEGATIVE with
\* a confidence in [0, 1], or failing), analyze_article returns a summary that
\* is not None, a label in {POSITIVE, NEGATIVE, N/A} and a number in
\* [-100, 100].
C2_ValidTextGivesResult ==
    Analyzed /\ ValidText(last.got)
        => /\ Len(last.calls) = 2
           /\ InContract(last.calls[2].trace.got)
                => /\ last.ret[1] # None
                   /\ last.ret[1].py = "str"
                   /\ last.ret[2] \in {Str(POSITIVE), Str(NEGATIVE), Str(NA)}
                   /\ last.ret[3].py = "num"
                   /\ last.ret[3].h \in (-100 * 100)..(100 * 100)

\* a valid text, a summarizer that raised, NEGATIVE with confidence 1
C2_Witness ==
    /\ Analyzed
    /\ ValidText(last.got)
    /\ Len(last.calls) = 2
    /\ last.calls[1].trace.got.kind = "raise"
    /\ last.calls[2].trace.got.kind = "ok"
    /\ last.calls[2].trace.got.label = NEGATIVE
    /\ last.calls[2].trace.got.score = ConfScale
    /\ last.ret = <<Str(SummaryFailed), Str(NEGATIVE), Num(-100 * 100)>>

SignMatches(label, score) ==
    /\ score.py = "num"
    /\ label = Str(POSITIVE) => score.h >= 0
    /\ label = Str(NEGATIVE) => score.h <= 0
    /\ label = Str(NA) => score.h = 0

\* C3: in every result of analyze_sentiment, in every row and in every
\* rendered result, label POSITIVE implies score >= 0, label NEGATIVE implies
\* score <= 0 and label N/A implies score = 0.
C3_SignMatchesLabel ==
    /\ Analyzed /\ Len(last.calls) = 2
         => SignMatches(last.calls[2].trace.ret[1], last.calls[2].trace.ret[2])
    /\ \A k \in 1..Len(results) :
         SignMatches(results[k]["Sentiment"], results[k]["Importance Score"])
    /\ \A k \in 1..Len(out) :
         out[k].label = "**Sentiment:**"
            => /\ k < Len(out)
               /\ out[k + 1].label = "**Importance Score:**"
               /\ SignMatches(out[k].value, out[k + 1].value)

\* the table holds a row with label NEGATIVE and score -42.0
C3_Witness ==
    /\ pc = "done"
    /\ \E k \in 1..Len(results) :
         /\ results[k]["Sentiment"] = Str(NEGATIVE)
         /\ results[k]["Importance Score"] = Num(-4200)
    /\ out[Len(out)].el = "table"

\* the labels of the model that equal POSITIVE when case is ignored
PositiveSpellings == {"POSITIVE", "positive", "Positive"}

\* C4: when the sentiment model returns label L and confidence c,
\* analyze_sentiment returns L unchanged and c * 100 if L is POSITIVE in any
\* case, -c * 100 for every other label, rounded to 2 decimal places; so
\* (POSITIVE, 0.87) gives 87.0 and (NEGATIVE, 0.42) gives -42.0.
C4_ImportanceTransform ==
    \A k \in 1..Len(call) :
        call[k].fn = "analyze_sentiment" /\ call[k].got.kind = "ok"
            => LET sn == call[k].got
                   sign == IF sn.label \in PositiveSpellings THEN 1 ELSE -1
                   h == call[k].ret[2].h
               IN  /\ call[k].ret[1] = Str(sn.label)
                   /\ call[k].ret[2].py = "num"
                   \* |h/100 - sign * 100 * c| <= 1/200, with c = score/ConfScale
                   /\ Abs(h * (ConfScale \div 10) - sign * 1000 * sn.score) <= ConfScale \div 20
                   /\ sn.label = POSITIVE /\ sn.score * 100 = 87 * ConfScale => h = 8700
                   /\ sn.label = NEGATIVE /\ sn.score * 100 = 42 * ConfScale => h = -4200

\* the label "positive" in lower case, returned as it is with a positive
\* score, and a score that rounding changed
C4_Witness ==
    /\ Len(call) = 1
    /\ call[1].got.kind = "ok"
    /\ call[1].got.label = "positive"
    /\ call[1].got.score = 7
    /\ call[1].ret = <<Str("positive"), Num(1)>>

MadeCall(fn) == {k \in 1..Len(call) : call[k].fn = fn}

\* C5: generate_summary hands the summarizer at most 1024 tokens: the first
\* 1024 tokens of the text, joined by single spaces, when the text has more,
\* and the text unchanged otherwise; analyze_sentiment hands the sentiment
\* model the first 512 characters of the text, or all of it when it is shorter.
C5_Truncation ==
    /\ \A k \in MadeCall("generate_summary") :
         LET sub == call[k].submitted
             given == NumTokens(arg)
             handed == NumTokens(sub)
         IN  /\ handed <= max_input
             /\ given <= max_input => sub = arg
             /\ given > max_input
                  => /\ handed = max_input
                     /\ NonSpace(sub) = max_input * arg.w
                     /\ TextLen(sub) = NonSpace(sub) + max_input - 1
    /\ \A k \in MadeCall("analyze_sentiment") :
         LET sub == call[k].submitted
         IN  /\ sub.upto <= SentimentMaxChars
             /\ sub.of = arg
             /\ sub.upto = IF TextLen(arg) > SentimentMaxChars
                           THEN SentimentMaxChars ELSE TextLen(arg)

\* a text of 1025 tokens and more than 512 characters went through both
C5_Witness ==
    /\ NumTokens(arg) = max_input + 1
    /\ TextLen(arg) > SentimentMaxChars
    /\ \E k \in MadeCall("generate_summary") :
         NumTokens(call[k].submitted) = max_input /\ call[k].submitted # arg
    /\ \E k \in MadeCall("analyze_sentiment") :
         call[k].submitted.upto = SentimentMaxChars

\* the last row of the batch loop, or the custom mode's rendering, shows ret
Rendered(ret) ==
    IF analysis_mode = "Preloaded Articles"
    THEN /\ results # <<>>
         /\ results[Len(results)]["URL"] = Str(last.url)
         /\ results[Len(results)]["Summary"] = ret[1]
         /\ results[Len(results)]["Sentiment"] = ret[2]
         /\ results[Len(results)]["Importance Score"] = ret[3]
    ELSE /\ \E k \in 1..Len(out) : out[k] = El("write", "**Summary:**", ret[1])
         /\ out[Len(out)] = El("success", "Analysis complete!", None)

\* C6: when the summarizer fails on a valid text, generate_summary returns
\* "Summary generation failed." and raises nothing; analyze_article still
\* calls analyze_sentiment on the same text and returns a triple with that
\* summary, which is rendered and, in the batch loop, collected as a row.
C6_SummaryFailureDegrades ==
    Analyzed /\ Len(last.calls) >= 1 /\ last.calls[1].trace.got.kind # "ok"
        => /\ last.calls[1].trace.fn = "generate_summary"
           /\ last.calls[1].trace.ret = Str(SummaryFailed)
           /\ ~last.calls[1].trace.escaped
           /\ Len(last.calls) = 2
           /\ last.calls[2].trace.fn = "analyze_sentiment"
           /\ last.calls[2].arg = last.article_text
           /\ last.ret = <<Str(SummaryFailed), last.calls[2].trace.ret[1],
                           last.calls[2].trace.ret[2]>>
           /\ ~last.escaped
           /\ Rendered(last.ret)

\* the summarizer raised in the batch loop and the article has its row
C6_Witness ==
    /\ Analyzed
    /\ InBatch
    /\ Len(last.calls) = 2
    /\ last.calls[1].trace.got.kind = "raise"
    /\ last.calls[2].trace.got.kind = "ok"
    /\ results # <<>>
    /\ results[Len(results)]["Summary"] = Str(SummaryFailed)

\* C7: when the sentiment model fails or returns a malformed result,
\* analyze_sentiment returns ("N/A", 0) and raises nothing, and
\* analyze_article returns the summary already produced with N/A and 0.
C7_SentimentFailureDegrades ==
    Analyzed /\ Len(last.calls) = 2 /\ last.calls[2].trace.got.kind # "ok"
        => /\ last.calls[2].trace.ret = <<Str("N/A"), Num(0)>>
           /\ ~last.calls[2].trace.escaped
           /\ last.ret = <<last.calls[1].trace.ret, Str("N/A"), Num(0)>>
           /\ ~last.escaped

\* the summarizer returned "s1", the sentiment model a malformed result
C7_Witness ==
    /\ Analyzed
    /\ Len(last.calls) = 2
    /\ last.calls[1].trace.got = [kind |-> "ok", summary |-> "s1"]
    /\ last.calls[2].trace.got.kind = "missing_key"
    /\ last.ret = <<Str("s1"), Str("N/A"), Num(0)>>

\* the articles processed so far whose text was extracted with >= 100 characters
Kept == {k \in 1..Len(fetched) : ValidText(fetched[k])}

\* C8: in batch mode the rows collected are those of the preloaded articles
\* whose extraction succeeded with a text of at least 100 characters, one row
\* each, in the preloaded order; an article that failed or was too short has
\* no row and the articles after it are still processed.
C8_RowsAreTheAnalyzedArticles ==
    InBatch
        => /\ Len(fetched) = idx - 1
           /\ Len(results) = Cardinality(Kept)
           /\ \A k \in Kept :
                LET j == Cardinality({m \in Kept : m <= k})
                IN  /\ results[j]["Title"] = Str(preloaded_articles[k].title)
                    /\ results[j]["URL"] = Str(preloaded_articles[k].url)
           /\ pc = "done" => Len(fetched) = Len(preloaded_articles)

\* the first article failed to download, the second was too short, the third
\* was analyzed and is the only row
C8_Witness ==
    /\ InBatch
    /\ pc = "done"
    /\ fetched[1].kind = "raise"
    /\ ShortText(fetched[2])
    /\ ValidText(fetched[3])
    /\ Len(results) = 1
    /\ results[1]["Title"] = Str("BBC Article 3")

TableRendered == \E k \in 1..Len(out) : out[k].el = "table"

TableAfterAll ==
    TableRendered
        => /\ InBatch
           /\ pc = "done"
           /\ Len(fetched) = Len(preloaded_articles)
           /\ out[Len(out)] = El("table", "", DataFrame(results))
           /\ out[Len(out)].value.columns
                = <<"Title", "URL", "Summary", "Sentiment", "Importance Score">>

\* C9 as stated: the table is rendered after the last article, never before,
\* in every batch run, also when every article failed or was too short.
C9_TableInEveryBatchRun ==
    /\ TableAfterAll
    /\ InBatch /\ pc = "done" => TableRendered

\* C9: in batch mode the table with columns Title, URL, Summary, Sentiment,
\* Importance Score is rendered after all preloaded articles have been
\* processed, never before, exactly in the runs that analyzed at least one
\* article; a run in which every article failed or was too short renders none.
C9_TableWhenSomeRow ==
    /\ TableAfterAll
    /\ InBatch /\ pc = "done" => (TableRendered <=> results # <<>>)

\* a finished batch run with one article skipped and a table of two rows
C9_Witness ==
    /\ InBatch
    /\ pc = "done"
    /\ Len(results) = 2
    /\ TableRendered

Reused ==
    /\ \A f \in Loaders : built[f] <= 1 /\ cache[f] = built[f]
    /\ summarizer \in {0, cache["load_summarizer"]}
    /\ sentiment_analyzer \in {0, cache["load_sentiment"]}
    /\ \A f \in Loaders : used[f] => built[f] = 1
    /\ Analyzed /\ Len(last.calls) = 2
         => /\ last.calls[1].trace.handle = 1
            /\ last.calls[2].trace.handle = 1

\* C10 as stated: a handle is not constructed before the first analysis that
\* uses it, it is constructed at most once, and later analyses reuse it.
C10_LazyOnFirstUse ==
    /\ Reused
    /\ \A f \in Loaders : built[f] > 0 => used[f]

\* C10: each of the two handles is a process-wide singleton constructed when
\* the first run of the script reaches lines 15-16, before any analysis and
\* whether or not an analysis ever uses it; it is constructed at most once,
\* and every later run and analysis reuses that same handle.
C10_BuiltOnFirstRun ==
    /\ Reused
    /\ runs = 0 => \A f \in Loaders : built[f] = 0
    /\ runs >= 1 /\ pc # "l15" => built["load_summarizer"] = 1 /\ summarizer = 1
    /\ runs >= 1 /\ pc \notin {"l15", "l16"}
         => built["load_sentiment"] = 1 /\ sentiment_analyzer = 1

\* an analysis of a later run, on the handles the first run built
C10_Witness ==
    /\ runs >= 2
    /\ Analyzed
    /\ Len(last.calls) = 2
    /\ last.calls[1].trace.handle = 1
    /\ last.calls[2].trace.handle = 1
    /\ \A f \in Loaders : built[f] = 1

====
